---- MODULE Spec2Model ----
(***************************************************************************)
(* pgbulk MERGE builder (src/pgbulk/_merge.py).                            *)
(*                                                                         *)
(* SQL text is a sequence of tokens.  A token is a record [k, s]: k says   *)
(* how the text s got into the statement: "kw" for the literal text of a   *)
(* format string, "raw" for a name interpolated as it is, "quoted" for a   *)
(* name that went through _quote, "param" for a bound-parameter            *)
(* placeholder.  White space between tokens is left out.                   *)
(***************************************************************************)
EXTENDS Integers, Sequences, FiniteSets, TLC

VARIABLES
    snaps,      \* the _MergeOn objects created so far, in creation order
    call,       \* the last builder call: its name, receiver, arguments, result
    on_sql,     \* the last _compile_on call: its receiver and the text returned
    using,      \* _MergeUsing.values, the row source shared by all snapshots
    compiled,   \* the last _compile_merge call: receiver, argument, result
    pc,         \* position of the execute() call in progress
    exec,       \* receiver and returning argument of that execute() call
    cursors,    \* cursor events of that execute() call, in order
    result      \* what that execute() call returned

vars == <<snaps, call, on_sql, using, compiled, pc, exec, cursors, result>>

\* ------------------------------------------------------------------ bounds

MaxSnaps == 3       \* _MergeOn objects in the builder specification
MaxChain == 2       \* _MergeOn objects in the compile and execute specifications
MaxRows == 1        \* rows in the row source

\* ------------------------------------------------------------------ tokens

Kw(s) == [k |-> "kw", s |-> s]
Raw(s) == [k |-> "raw", s |-> s]
Param(s) == [k |-> "param", s |-> s]

\* pgbulk.core._quote: the identifier, quoted for the dialect.
_quote(s) == [k |-> "quoted", s |-> s]

RECURSIVE Join(_, _)
\* sep.join(parts), each part a token sequence.
Join(parts, sep) ==
    IF Len(parts) = 0 THEN <<>>
    ELSE IF Len(parts) = 1 THEN parts[1]
    ELSE parts[1] \o <<sep>> \o Join(Tail(parts), sep)

\* ------------------------------------------------------------------ the target model

\* pgbulk.core._model_fields(model): the target's fields in order; id is the
\* AutoField.
_model_fields ==
    << [column |-> "id", auto |-> TRUE],
       [column |-> "name", auto |-> FALSE],
       [column |-> "amount", auto |-> FALSE] >>

db_table == "item"

RECURSIVE NonAuto(_)
NonAuto(fs) ==
    IF Len(fs) = 0 THEN <<>>
    ELSE (IF ~fs[1].auto THEN <<fs[1].column>> ELSE <<>>) \o NonAuto(Tail(fs))

\* _all_fields(model): the columns of the fields that are no AutoField.
_all_fields == NonAuto(_model_fields)

\* ------------------------------------------------------------------ clauses

_Update(fields) == [type |-> "Update", fields |-> fields]
_Insert(columns, values) == [type |-> "Insert", columns |-> columns, values |-> values]
_Delete == [type |-> "Delete"]
_DoNothing == [type |-> "DoNothing"]
_When(condition, by, then) == [condition |-> condition, by |-> by, then |-> then]

RECURSIVE UpdateLoop(_, _)
UpdateLoop(fields, idx) ==
    IF idx > Len(fields) THEN <<>>
    ELSE << Raw(fields[idx]), Kw("="), Kw("source."), Raw(fields[idx]) >>
         \o (IF idx - 1 < Len(fields) - 1 THEN <<Kw(",")>> ELSE <<>>)
         \o UpdateLoop(fields, idx + 1)

_Update_evaluate(then) == <<Kw("UPDATE SET")>> \o UpdateLoop(then.fields, 1)

_Insert_evaluate(then) ==
    <<Kw("INSERT")>>
    \o (IF Len(then.columns) > 0
        THEN <<Kw("(")>> \o Join([i \in 1..Len(then.columns) |-> <<Raw(then.columns[i])>>], Kw(","))
             \o <<Kw(")"), Kw("VALUES")>>
        ELSE <<Kw("VALUES")>>)
    \o (IF Len(then.values) > 0
        THEN <<Kw("(")>> \o Join(then.values, Kw(",")) \o <<Kw(")")>>
        ELSE <<>>)

_Delete_evaluate == <<Kw("DELETE")>>
_DoNothing_evaluate == <<Kw("DO NOTHING")>>

then_evaluate(then) ==
    CASE then.type = "Update" -> _Update_evaluate(then)
      [] then.type = "Insert" -> _Insert_evaluate(then)
      [] then.type = "Delete" -> _Delete_evaluate
      [] then.type = "DoNothing" -> _DoNothing_evaluate

_When_evaluate(when) ==
    << Kw("WHEN"), Kw(when.condition) >>
    \o (IF when.by = "SOURCE" THEN <<Kw("BY SOURCE")>> ELSE <<>>)
    \o <<Kw("THEN")>> \o then_evaluate(when.then)

\* ------------------------------------------------------------------ _compile_on

RECURSIVE OnLoop(_, _, _)
OnLoop(fields, sign, idx) ==
    IF idx > Len(fields) THEN <<>>
    ELSE << Kw("source."), Raw(fields[idx]), Kw(sign), Kw("target."), Raw(fields[idx]) >>
         \o (IF idx - 1 < Len(fields) - 1 THEN <<Kw("AND")>> ELSE <<>>)
         \o OnLoop(fields, sign, idx + 1)

RECURSIVE WhenLoop(_)
WhenLoop(whens) ==
    IF Len(whens) = 0 THEN <<>>
    ELSE _When_evaluate(whens[1]) \o WhenLoop(Tail(whens))

RECURSIVE WhenLoopReversed(_)
WhenLoopReversed(whens) ==
    IF Len(whens) = 0 THEN <<>>
    ELSE WhenLoopReversed(Tail(whens)) \o _When_evaluate(whens[1])

\* _compile_on with the WHEN clauses rendered last to first.
compile_on_reversed(on) ==
    <<Kw("ON")>>
    \o OnLoop(on.fields, IF ~on.distinct_from THEN "=" ELSE "IS NOT DISTINCT FROM", 1)
    \o WhenLoopReversed(on.whens)

_compile_on(on) ==
    <<Kw("ON")>>
    \o OnLoop(on.fields, IF ~on.distinct_from THEN "=" ELSE "IS NOT DISTINCT FROM", 1)
    \o WhenLoop(on.whens)

\* ------------------------------------------------------------------ the builder

\* dataclasses.replace(heap[i], whens=whens): a new _MergeOn object, the
\* other fields those of heap[i]; heap[i] is not written.
replace_in_place(heap, i, whens) ==
    Append([heap EXCEPT ![i].whens = whens], [heap[i] EXCEPT !.whens = whens])

dataclasses_replace(heap, i, whens) ==
    Append(heap, [heap[i] EXCEPT !.whens = whens])

\* An optional field list: update(fields=None) or update(fields=[...]).
None == [given |-> FALSE, list |-> <<>>]
Some(list) == [given |-> TRUE, list |-> list]

\* `fields or _all_fields(...)`: None and the empty list are both falsy.
update_always_given(fields) == fields.list

update_fields(fields) ==
    IF fields.given /\ Len(fields.list) > 0 THEN fields.list ELSE _all_fields

_MergeUsing_on(heap, fields, distinct_from) ==
    Append(heap, [using |-> 1, fields |-> fields, distinct_from |-> distinct_from,
                  whens |-> <<>>])

_WhenMatched_update(heap, i, fields) ==
    dataclasses_replace(heap, i,
        Append(heap[i].whens, _When("MATCHED", "TARGET", _Update(update_fields(fields)))))

delete_not_matched(heap, i) ==
    dataclasses_replace(heap, i,
        Append(heap[i].whens, _When("NOT MATCHED", "TARGET", _Delete)))

_WhenMatched_delete(heap, i) ==
    dataclasses_replace(heap, i,
        Append(heap[i].whens, _When("MATCHED", "TARGET", _Delete)))

_WhenMatched_do_nothing(heap, i) ==
    dataclasses_replace(heap, i,
        Append(heap[i].whens, _When("MATCHED", "TARGET", _DoNothing)))

_WhenNotMatched_insert(heap, i, by) ==
    dataclasses_replace(heap, i,
        Append(heap[i].whens,
               _When("NOT MATCHED", by,
                     _Insert(_all_fields,
                             [k \in 1..Len(_all_fields) |->
                                 <<Kw("source."), Raw(_all_fields[k])>>]))))

_WhenNotMatched_do_nothing(heap, i, by) ==
    dataclasses_replace(heap, i,
        Append(heap[i].whens, _When("NOT MATCHED", by, _DoNothing)))

\* ------------------------------------------------------------------ inputs

OnFields == { <<"name">>, <<"name", "amount">> }
UpdateFields == { None, Some(<<>>), Some(<<"name">>), Some(<<"amount", "name">>) }
By == { "SOURCE", "TARGET" }

NoCall == [op |-> "none", on |-> 0, fields |-> None, by |-> "TARGET", ret |-> 0]
NoOnSql == [on |-> 0, sql |-> <<>>]

\* ------------------------------------------------------------------ builder actions

On(max, fields, distinct_from) ==
    /\ Len(snaps) < max
    /\ snaps' = _MergeUsing_on(snaps, fields, distinct_from)
    /\ call' = [NoCall EXCEPT !.op = "on", !.ret = Len(snaps')]
    /\ UNCHANGED <<on_sql, using, compiled, pc, exec, cursors, result>>

WhenMatchedUpdate(max, i, fields) ==
    /\ Len(snaps) < max
    /\ snaps' = _WhenMatched_update(snaps, i, fields)
    /\ call' = [NoCall EXCEPT !.op = "update", !.on = i, !.fields = fields,
                              !.ret = Len(snaps')]
    /\ UNCHANGED <<on_sql, using, compiled, pc, exec, cursors, result>>

WhenMatchedDelete(max, i) ==
    /\ Len(snaps) < max
    /\ snaps' = _WhenMatched_delete(snaps, i)
    /\ call' = [NoCall EXCEPT !.op = "delete", !.on = i, !.ret = Len(snaps')]
    /\ UNCHANGED <<on_sql, using, compiled, pc, exec, cursors, result>>

WhenMatchedDoNothing(max, i) ==
    /\ Len(snaps) < max
    /\ snaps' = _WhenMatched_do_nothing(snaps, i)
    /\ call' = [NoCall EXCEPT !.op = "matched_do_nothing", !.on = i, !.ret = Len(snaps')]
    /\ UNCHANGED <<on_sql, using, compiled, pc, exec, cursors, result>>

WhenNotMatchedInsert(max, i, by) ==
    /\ Len(snaps) < max
    /\ snaps' = _WhenNotMatched_insert(snaps, i, by)
    /\ call' = [NoCall EXCEPT !.op = "insert", !.on = i, !.by = by, !.ret = Len(snaps')]
    /\ UNCHANGED <<on_sql, using, compiled, pc, exec, cursors, result>>

WhenNotMatchedDoNothing(max, i, by) ==
    /\ Len(snaps) < max
    /\ snaps' = _WhenNotMatched_do_nothing(snaps, i, by)
    /\ call' = [NoCall EXCEPT !.op = "not_matched_do_nothing", !.on = i, !.by = by,
                              !.ret = Len(snaps')]
    /\ UNCHANGED <<on_sql, using, compiled, pc, exec, cursors, result>>

CompileOn(i) ==
    /\ on_sql' = [on |-> i, sql |-> _compile_on(snaps[i])]
    /\ UNCHANGED <<snaps, call, using, compiled, pc, exec, cursors, result>>

\* ------------------------------------------------------------------ the row source

\* A row is [id, attrs]: attrs are the attributes the object has.  The row
\* source is a list, a QuerySet (evaluated once, then served from its result
\* cache) or a one-shot iterator (pos rows are already consumed).
Attnames == { _model_fields[k].column : k \in 1..Len(_model_fields) }
Row(id, complete) == [id |-> id, attrs |-> IF complete THEN Attnames ELSE Attnames \ {"amount"}]
Kinds == { "list", "queryset", "iterator" }

Sources ==
    { [kind |-> kind, rows |-> [k \in 1..n |-> Row(k, c[k])], pos |-> 0, cached |-> FALSE] :
        <<kind, n, c>> \in { t \in Kinds \X (0..MaxRows) \X UNION { [1..m -> BOOLEAN] : m \in 0..MaxRows } :
                              DOMAIN t[3] = 1..t[2] } }

\* bool(values): a list is truthy when it has an element; a QuerySet fetches its
\* rows to tell; an iterator defines neither __bool__ nor __len__ and is truthy.
values_bool(values) ==
    IF values.kind = "iterator" THEN TRUE ELSE Len(values.rows) > 0

\* The rows an iteration over values yields now.
values_iter(values) ==
    IF values.kind = "iterator"
    THEN SubSeq(values.rows, values.pos + 1, Len(values.rows))
    ELSE values.rows

\* values after bool(values).
after_bool(values) ==
    IF values.kind = "queryset" THEN [values EXCEPT !.cached = TRUE] ELSE values

\* values after an iteration that stopped after n of the rows it yields.
after_iter(values, n) ==
    CASE values.kind = "iterator" -> [values EXCEPT !.pos = values.pos + n]
      [] values.kind = "queryset" -> [values EXCEPT !.cached = TRUE]
      [] OTHER -> values

\* ------------------------------------------------------------------ the value serializer

\* The first row of rows that lacks an attribute of all_fields, 0 if none.
FirstMissing(rows, all_fields) ==
    LET bad == { k \in 1..Len(rows) :
                   \E f \in 1..Len(all_fields) : all_fields[f].column \notin rows[k].attrs }
    IN IF bad = {} THEN 0 ELSE CHOOSE k \in bad : \A j \in bad : k <= j

RECURSIVE Flatten(_)
Flatten(seqs) == IF Len(seqs) = 0 THEN <<>> ELSE seqs[1] \o Flatten(Tail(seqs))

\* pgbulk.core._get_values_for_rows: one placeholder group per row and the
\* flat parameter list, row-major; a row without one of the columns raises.
_get_values_for_rows(rows, all_fields) ==
    LET miss == FirstMissing(rows, all_fields)
    IN IF miss # 0
       THEN [raise |-> TRUE, consumed |-> miss, row_values |-> <<>>, sql_args |-> <<>>]
       ELSE [raise |-> FALSE,
             consumed |-> Len(rows),
             row_values |-> [k \in 1..Len(rows) |->
                 <<Kw("(")>> \o Join([f \in 1..Len(all_fields) |-> <<Param("%s")>>], Kw(","))
                 \o <<Kw(")")>>],
             sql_args |-> Flatten([k \in 1..Len(rows) |->
                 [f \in 1..Len(all_fields) |-> <<rows[k].id, all_fields[f].column>>]])]

\* ------------------------------------------------------------------ _compile_merge

\* The returning argument: False, True or a list of field names.
RetFalse == [isbool |-> TRUE, b |-> FALSE, list |-> <<>>]
RetTrue == [isbool |-> TRUE, b |-> TRUE, list |-> <<>>]
RetList(list) == [isbool |-> FALSE, b |-> FALSE, list |-> list]

Returnings == { RetFalse, RetTrue, RetList(<<"name">>), RetList(<<"name", "amount">>) }

\* Lines 193-198: the RETURNING clause.
returning_sql(returning) ==
    IF returning = RetFalse THEN <<>>
    ELSE LET fields == IF returning # RetTrue THEN returning.list ELSE _all_fields
         IN << Kw("RETURNING"), Kw("merge_action()") >>
            \o (IF Len(fields) > 1
                THEN <<Kw(",")>>
                     \o Join([k \in 1..Len(fields) |-> <<Kw("target."), Raw(fields[k])>>],
                             Kw(","))
                ELSE <<>>)

\* Lines 184-198: the body of the with block.
merge_sql(on, returning, row_values) ==
    << Kw("MERGE INTO"), _quote(db_table), Kw("target USING (VALUES") >>
    \o Join(row_values, Kw(","))
    \o << Kw(") AS source (") >>
    \o Join([k \in 1..Len(_model_fields) |-> <<_quote(_model_fields[k].column)>>], Kw(","))
    \o << Kw(")") >>
    \o _compile_on(on)
    \o returning_sql(returning)

RetNone == [kind |-> "None", sql |-> <<>>, sql_args |-> <<>>]
RetRaise == [kind |-> "raise", sql |-> <<>>, sql_args |-> <<>>]
_CompiledMerge(sql, sql_args) == [kind |-> "ok", sql |-> sql, sql_args |-> sql_args]

\* `with connections[db].cursor() as cursor`: entering the block acquires the
\* cursor; leaving it, by return or by exception, releases it.
with_enter(events) == Append(events, "acquire")

with_exit_leak_on_error(events, raising) ==
    IF raising THEN events ELSE Append(events, "release")

with_exit(events, raising) == Append(events, "release")

\* _compile_merge acquiring its cursor before the rows are serialized.
compile_merge_cursor_first(on, returning, values) ==
    IF ~values_bool(values)
    THEN [ret |-> RetNone, values |-> after_bool(values), cursors |-> <<>>]
    ELSE LET rows == values_iter(after_bool(values))
             got == _get_values_for_rows(rows, _model_fields)
             left == after_iter(after_bool(values), got.consumed)
         IN IF got.raise
            THEN [ret |-> RetRaise, values |-> left,
                  cursors |-> with_exit(with_enter(<<>>), TRUE)]
            ELSE [ret |-> _CompiledMerge(merge_sql(on, returning, got.row_values),
                                         got.sql_args),
                  values |-> left,
                  cursors |-> with_exit(with_enter(<<>>), FALSE)]

\* _compile_merge(on, returning=...): what it returns, the row source after
\* it, and the cursor events it caused.
_compile_merge(on, returning, values) ==
    IF ~values_bool(values)
    THEN [ret |-> RetNone, values |-> after_bool(values), cursors |-> <<>>]
    ELSE LET rows == values_iter(after_bool(values))
             got == _get_values_for_rows(rows, _model_fields)
             left == after_iter(after_bool(values), got.consumed)
         IN IF got.raise
            THEN [ret |-> RetRaise, values |-> left, cursors |-> <<>>]
            ELSE [ret |-> _CompiledMerge(merge_sql(on, returning, got.row_values),
                                         got.sql_args),
                  values |-> left,
                  cursors |-> with_exit(with_enter(<<>>), FALSE)]

NoCompiled == [on |-> 0, returning |-> RetFalse, ret |-> RetNone]

Compile(i, returning) ==
    /\ LET c == _compile_merge(snaps[i], returning, using)
       IN /\ compiled' = [on |-> i, returning |-> returning, ret |-> c.ret]
          /\ using' = c.values
    /\ UNCHANGED <<snaps, call, on_sql, pc, exec, cursors, result>>

\* ------------------------------------------------------------------ execute()

\* The receiver of execute(): stage "on" is _MergeOn.execute (compiled with
\* returning=False), stage "returning" is _MergeReturning.execute with its
\* fields.  rows is the number of rows the source had to give at the call.
NoExec == [on |-> 0, stage |-> "on", fields |-> RetFalse, rows |-> 0]
NoResult == [kind |-> "running", error |-> "", rows |-> <<>>]
Returned(kind, rows) == [kind |-> kind, error |-> "", rows |-> rows]
Raised(error) == [kind |-> "raise", error |-> error, rows |-> <<>>]

\* What cursor.fetchall() may give: the merge_action column of the rows.
Fetched == { <<>>, <<"INSERT", "UPDATE">> }

\* Lines 284-286 and 326-328: compile, and return at once when there is no
\* statement.
ExecuteCompile(i, stage, fields) ==
    /\ pc \in { "idle", "returned", "raised" }
    /\ i \in 1..Len(snaps)
    /\ LET c == _compile_merge(snaps[i], fields, using)
       IN /\ exec' = [on |-> i, stage |-> stage, fields |-> fields,
                      rows |-> Len(values_iter(using))]
          /\ compiled' = [on |-> i, returning |-> fields, ret |-> c.ret]
          /\ using' = c.values
          /\ cursors' = c.cursors
          /\ CASE c.ret.kind = "None" ->
                    /\ pc' = "returned"
                    /\ result' = IF stage = "returning"
                                 THEN Returned("MergeResult", <<>>)
                                 ELSE Returned("None", <<>>)
               [] c.ret.kind = "raise" ->
                    /\ pc' = "raised"
                    /\ result' = Raised("missing column")
               [] c.ret.kind = "ok" ->
                    /\ pc' = "cursor"
                    /\ result' = NoResult
    /\ UNCHANGED <<snaps, call, on_sql>>

\* Lines 288 and 330: the cursor of the execute.
ExecuteCursor ==
    /\ pc = "cursor"
    /\ cursors' = with_enter(cursors)
    /\ pc' = "execute"
    /\ UNCHANGED <<snaps, call, on_sql, using, compiled, exec, result>>

\* Lines 289-291 and 331: cursor.execute(sql, sql_args); the database may
\* refuse the statement.
ExecuteStatement ==
    /\ pc = "execute"
    /\ cursors' = Append(cursors, "execute")
    /\ \/ /\ pc' = IF exec.stage = "returning" THEN "fetch" ELSE "exit"
          /\ result' = IF exec.stage = "returning" THEN result ELSE Returned("None", <<>>)
       \/ /\ pc' = "exit_raise"
          /\ result' = Raised("database")
    /\ UNCHANGED <<snaps, call, on_sql, using, compiled, exec>>

\* Line 292: _MergeResult.from_cursor(cursor).
ExecuteFetch ==
    /\ pc = "fetch"
    /\ cursors' = Append(cursors, "fetch")
    /\ \/ /\ pc' = "exit"
          /\ \E rows \in Fetched : result' = Returned("MergeResult", rows)
       \/ /\ pc' = "exit_raise"
          /\ result' = Raised("database")
    /\ UNCHANGED <<snaps, call, on_sql, using, compiled, exec>>

\* The end of the with block.
ExecuteExit ==
    /\ pc \in { "exit", "exit_raise" }
    /\ cursors' = with_exit(cursors, pc = "exit_raise")
    /\ pc' = IF pc = "exit" THEN "returned" ELSE "raised"
    /\ UNCHANGED <<snaps, call, on_sql, using, compiled, exec, result>>

\* ------------------------------------------------------------------ specifications

InitCommon ==
    /\ snaps = <<>>
    /\ call = NoCall
    /\ on_sql = NoOnSql
    /\ compiled = NoCompiled
    /\ pc = "idle"
    /\ exec = NoExec
    /\ cursors = <<>>
    /\ result = NoResult

\* The builder alone, over one pre-fetched row.
Init ==
    /\ InitCommon
    /\ using = [kind |-> "list", rows |-> <<Row(1, TRUE)>>, pos |-> 0, cached |-> FALSE]

Next ==
    \/ \E fields \in OnFields, distinct_from \in BOOLEAN : On(MaxSnaps, fields, distinct_from)
    \/ \E i \in 1..Len(snaps), fields \in UpdateFields : WhenMatchedUpdate(MaxSnaps, i, fields)
    \/ \E i \in 1..Len(snaps) : WhenMatchedDelete(MaxSnaps, i)
    \/ \E i \in 1..Len(snaps) : WhenMatchedDoNothing(MaxSnaps, i)
    \/ \E i \in 1..Len(snaps), by \in By : WhenNotMatchedInsert(MaxSnaps, i, by)
    \/ \E i \in 1..Len(snaps), by \in By : WhenNotMatchedDoNothing(MaxSnaps, i, by)
    \/ \E i \in 1..Len(snaps) : CompileOn(i)

Spec == Init /\ [][Next]_vars

\* The builder and _compile_merge, over every kind of row source.
InitCompile ==
    /\ InitCommon
    /\ using \in Sources

NextCompile ==
    \/ \E fields \in OnFields, distinct_from \in BOOLEAN : On(MaxChain, fields, distinct_from)
    \/ \E i \in 1..Len(snaps), fields \in UpdateFields : WhenMatchedUpdate(MaxChain, i, fields)
    \/ \E i \in 1..Len(snaps) : WhenMatchedDelete(MaxChain, i)
    \/ \E i \in 1..Len(snaps) : WhenMatchedDoNothing(MaxChain, i)
    \/ \E i \in 1..Len(snaps), by \in By : WhenNotMatchedInsert(MaxChain, i, by)
    \/ \E i \in 1..Len(snaps), by \in By : WhenNotMatchedDoNothing(MaxChain, i, by)
    \/ \E i \in 1..Len(snaps), returning \in Returnings : Compile(i, returning)

SpecCompile == InitCompile /\ [][NextCompile]_vars

\* The builder and the two execute() methods, over every kind of row source.
ExecStages ==
    { <<"on", RetFalse>>, <<"returning", RetTrue>>, <<"returning", RetList(<<"name">>)>> }

NextExec ==
    \/ On(MaxChain, <<"name">>, TRUE)
    \/ \E i \in 1..Len(snaps) : WhenMatchedUpdate(MaxChain, i, None)
    \/ \E i \in 1..Len(snaps) : WhenMatchedDelete(MaxChain, i)
    \/ \E i \in 1..Len(snaps) : WhenMatchedDoNothing(MaxChain, i)
    \/ \E i \in 1..Len(snaps) : WhenNotMatchedInsert(MaxChain, i, "TARGET")
    \/ \E i \in 1..Len(snaps) : WhenNotMatchedDoNothing(MaxChain, i, "TARGET")
    \/ \E i \in 1..Len(snaps), s \in ExecStages : ExecuteCompile(i, s[1], s[2])
    \/ ExecuteCursor
    \/ ExecuteStatement
    \/ ExecuteFetch
    \/ ExecuteExit

SpecExec == InitCompile /\ [][NextExec]_vars

\* ------------------------------------------------------------------ helpers of the claims

WhenOps == { "update", "delete", "matched_do_nothing", "insert", "not_matched_do_nothing" }

Terminal == pc \in { "returned", "raised" }

Count(events, e) == Cardinality({ p \in 1..Len(events) : events[p] = e })

\* Cursors held after the first p events.
Held(events, p) ==
    Cardinality({ q \in 1..p : events[q] = "acquire" })
    - Cardinality({ q \in 1..p : events[q] = "release" })

\* The places of a statement where a WHEN clause starts, and the k-th WHEN
\* clause: the text from its WHEN up to the next WHEN, the RETURNING or the end.
WhenStarts(sql) == { p \in 1..Len(sql) : sql[p] = Kw("WHEN") }
ClauseEnds(sql) ==
    { p - 1 : p \in { q \in 1..Len(sql) : sql[q] \in { Kw("WHEN"), Kw("RETURNING") } } }
    \cup { Len(sql) }
WhenClause(sql, k) ==
    LET start == CHOOSE p \in WhenStarts(sql) :
                    Cardinality({ q \in WhenStarts(sql) : q < p }) = k - 1
        end == CHOOSE e \in ClauseEnds(sql) :
                    /\ e >= start
                    /\ \A f \in ClauseEnds(sql) : f >= start => e <= f
    IN SubSeq(sql, start, end)

\* The RETURNING clause of a statement: from its RETURNING to the end.
ReturningClause(sql) ==
    LET at == { p \in 1..Len(sql) : sql[p] = Kw("RETURNING") }
    IN IF at = {} THEN <<>> ELSE SubSeq(sql, CHOOSE p \in at : TRUE, Len(sql))

\* The target's non-identity columns, in the model's order.
IsNonIdentityColumns(list) ==
    LET at == { k \in 1..Len(_model_fields) : ~_model_fields[k].auto }
    IN /\ Len(list) = Cardinality(at)
       /\ \A n \in 1..Len(list) :
            \E k \in at : /\ _model_fields[k].column = list[n]
                          /\ Cardinality({ j \in at : j < k }) = n - 1

\* text is "<f> = source.<f>" for the fields of list in order, with commas
\* between.
IsSetList(text, list) ==
    /\ Len(text) = IF Len(list) = 0 THEN 0 ELSE 5 * Len(list) - 1
    /\ \A p \in 1..Len(text) :
         LET f == list[((p - 1) \div 5) + 1]
             r == (p - 1) % 5
         IN text[p] = CASE r = 0 -> Raw(f)
                        [] r = 1 -> Kw("=")
                        [] r = 2 -> Kw("source.")
                        [] r = 3 -> Raw(f)
                        [] OTHER -> Kw(",")

\* The WHEN entry the last builder call appended.
Appended == LET new == snaps[call.ret] IN new.whens[Len(new.whens)]

\* ------------------------------------------------------------------ C1

\* C1: a WHEN-stage terminal call on a snapshot S returns a new snapshot whose
\* when-entries are S's followed by exactly one new entry, and leaves every
\* snapshot that existed before the call, S among them, exactly as it was
\* (when-entries, on-fields, distinct-from flag, using reference).
C1_SnapshotsAreNeverWritten ==
    [][ (snaps' # snaps /\ call'.op \in WhenOps) =>
            /\ Len(snaps') = Len(snaps) + 1
            /\ call'.ret = Len(snaps')
            /\ LET S == snaps[call'.on]
                   new == snaps'[call'.ret]
               IN /\ Len(new.whens) = Len(S.whens) + 1
                  /\ SubSeq(new.whens, 1, Len(S.whens)) = S.whens
                  /\ new.fields = S.fields
                  /\ new.distinct_from = S.distinct_from
                  /\ new.using = S.using
            /\ \A j \in 1..Len(snaps) : snaps'[j] = snaps[j] ]_vars

\* Two branches built from the same snapshot S, with different entries, and S
\* still without either.
C1_Witness ==
    /\ call.op \in WhenOps
    /\ \E j \in 1..Len(snaps) :
         /\ j # call.ret
         /\ j # call.on
         /\ Len(snaps[j].whens) = Len(snaps[call.on].whens) + 1
         /\ SubSeq(snaps[j].whens, 1, Len(snaps[call.on].whens)) = snaps[call.on].whens
         /\ snaps[j].whens # snaps[call.ret].whens

\* ------------------------------------------------------------------ C4

\* C4: the ON clause text lists the WHEN clauses in the order of the calls:
\* it has as many WHEN clauses as the snapshot has entries, and its i-th WHEN
\* clause is the rendering of the i-th entry.
C4_WhenClausesInDeclarationOrder ==
    on_sql.on # 0 =>
        LET whens == snaps[on_sql.on].whens
        IN /\ Cardinality(WhenStarts(on_sql.sql)) = Len(whens)
           /\ \A k \in 1..Len(whens) : WhenClause(on_sql.sql, k) = _When_evaluate(whens[k])

\* A compiled snapshot with two different WHEN entries.
C4_Witness ==
    /\ on_sql.on # 0
    /\ Len(snaps[on_sql.on].whens) = 2
    /\ snaps[on_sql.on].whens[1] # snaps[on_sql.on].whens[2]

\* ------------------------------------------------------------------ C6

\* C6 as stated: DoNothing, Delete and Update entries have condition MATCHED,
\* Insert entries have condition NOT MATCHED.
C6_Original ==
    \A i \in 1..Len(snaps) : \A k \in 1..Len(snaps[i].whens) :
        LET w == snaps[i].whens[k]
        IN /\ w.then.type \in { "DoNothing", "Delete", "Update" } => w.condition = "MATCHED"
           /\ w.then.type = "Insert" => w.condition = "NOT MATCHED"

\* C6 amended: Delete and Update entries have condition MATCHED, Insert
\* entries have condition NOT MATCHED, and a DoNothing entry has either
\* condition (when_not_matched().do_nothing() is an entry point too).
C6_Pairing ==
    \A i \in 1..Len(snaps) : \A k \in 1..Len(snaps[i].whens) :
        LET w == snaps[i].whens[k]
        IN /\ w.then.type \in { "Delete", "Update" } => w.condition = "MATCHED"
           /\ w.then.type = "Insert" => w.condition = "NOT MATCHED"
           /\ w.then.type = "DoNothing" => w.condition \in { "MATCHED", "NOT MATCHED" }
           /\ w.then.type \in { "DoNothing", "Delete", "Update", "Insert" }

\* A snapshot holding a Delete entry and a DoNothing entry under NOT MATCHED.
C6_Witness ==
    \E i \in 1..Len(snaps) :
        /\ \E k \in 1..Len(snaps[i].whens) : snaps[i].whens[k].then.type = "Delete"
        /\ \E k \in 1..Len(snaps[i].whens) :
              /\ snaps[i].whens[k].then.type = "DoNothing"
              /\ snaps[i].whens[k].condition = "NOT MATCHED"

\* ------------------------------------------------------------------ C8

\* C8 as stated: update() without fields appends an UPDATE SET entry over the
\* target's non-identity columns; update(fields) with any explicit list,
\* whatever its length, appends one over exactly the given fields in order; the
\* entry renders as "<f> = source.<f>" separated by commas.
C8_Original ==
    call.op = "update" =>
        /\ Appended.condition = "MATCHED"
        /\ Appended.then.type = "Update"
        /\ IF call.fields.given
           THEN Appended.then.fields = call.fields.list
           ELSE IsNonIdentityColumns(Appended.then.fields)
        /\ on_sql.on = call.ret =>
             LET text == WhenClause(on_sql.sql, Len(snaps[call.ret].whens))
             IN /\ SubSeq(text, 1, 4) = << Kw("WHEN"), Kw("MATCHED"), Kw("THEN"), Kw("UPDATE SET") >>
                /\ IsSetList(SubSeq(text, 5, Len(text)), Appended.then.fields)

\* C8 amended: update() without fields, or with an empty list, appends an
\* UPDATE SET entry over the target's non-identity columns; update(fields)
\* with a non-empty list appends one over exactly the given fields in order;
\* the entry renders as "<f> = source.<f>" separated by commas.
C8_UpdateFields ==
    call.op = "update" =>
        /\ Appended.condition = "MATCHED"
        /\ Appended.then.type = "Update"
        /\ IF call.fields.given /\ Len(call.fields.list) > 0
           THEN Appended.then.fields = call.fields.list
           ELSE IsNonIdentityColumns(Appended.then.fields)
        /\ on_sql.on = call.ret =>
             LET text == WhenClause(on_sql.sql, Len(snaps[call.ret].whens))
             IN /\ SubSeq(text, 1, 4) = << Kw("WHEN"), Kw("MATCHED"), Kw("THEN"), Kw("UPDATE SET") >>
                /\ IsSetList(SubSeq(text, 5, Len(text)), Appended.then.fields)

\* update(["amount", "name"]) was called and its snapshot compiled.
C8_Witness ==
    /\ call.op = "update"
    /\ call.fields = Some(<<"amount", "name">>)
    /\ on_sql.on = call.ret

\* ------------------------------------------------------------------ C3

\* C3: for a non-empty list L given to returning(L), a list of one field
\* included, the RETURNING clause is merge_action() followed by target.<f> for
\* exactly the fields of L in order.
C3_ReturningListsExactlyL ==
    (compiled.ret.kind = "ok" /\ ~compiled.returning.isbool
        /\ Len(compiled.returning.list) > 0) =>
        LET L == compiled.returning.list
            text == ReturningClause(compiled.ret.sql)
        IN /\ Len(text) = 2 + 3 * Len(L)
           /\ text[1] = Kw("RETURNING")
           /\ text[2] = Kw("merge_action()")
           /\ \A n \in 1..Len(L) :
                /\ text[3 * n] = Kw(",")
                /\ text[3 * n + 1] = Kw("target.")
                /\ text[3 * n + 2].s = L[n]
                /\ text[3 * n + 2].k \in { "raw", "quoted" }

\* ------------------------------------------------------------------ C5

\* C5: with a non-empty row source, a second _compile_merge of the same
\* snapshot with the same returning argument gives the SQL text and the
\* parameter list the first one gave.
C5_RecompileGivesTheSame ==
    [][ (/\ compiled.on # 0
         /\ compiled.ret.kind = "ok"
         /\ Len(using.rows) > 0
         /\ compiled'.on = compiled.on
         /\ compiled'.returning = compiled.returning) =>
            compiled'.ret = compiled.ret ]_vars

\* ------------------------------------------------------------------ C7

\* C7: every table and column name in the compiled SQL went through the
\* identifier quoter: no name is interpolated as it is.
C7_EveryIdentifierQuoted ==
    compiled.ret.kind = "ok" =>
        \A p \in 1..Len(compiled.ret.sql) : compiled.ret.sql[p].k # "raw"

\* ------------------------------------------------------------------ C2

\* C2: execute() on an empty row source compiles to no statement, calls
\* execute on no cursor, does not fail, and on the returning path returns an
\* empty result set.
C2_EmptySourceNoEffect ==
    (exec.on # 0 /\ exec.rows = 0) =>
        /\ compiled.ret = RetNone
        /\ Count(cursors, "execute") = 0
        /\ pc = "returned"
        /\ result = IF exec.stage = "returning"
                    THEN Returned("MergeResult", <<>>)
                    ELSE Returned("None", <<>>)

\* ------------------------------------------------------------------ C9

====
